---- MODULE Spec2Model ----
(***************************************************************************)
(* Localization-catalog scripts of Dayflow: key generation from source     *)
(* text and the load / merge / write scripts over Localizable.xcstrings.   *)
(*                                                                         *)
(* A text (Python str) is a sequence of characters; a character is a       *)
(* one-character string, or "U+XXXX" for a code point outside ASCII.       *)
(***************************************************************************)
EXTENDS Integers, Sequences, FiniteSets, TLC

(***************************************************************************)
(* Characters and the Python str / re primitives the scripts use.          *)
(***************************************************************************)

\* The characters of the model in code-point order (the order sorted() uses).
\* U+0009 tab, U+00A0 no-break space, U+00C9 E-acute, U+00E9 e-acute,
\* U+0663 arabic-indic digit three, U+221E infinity, U+4E49 to U+8FD4 CJK
\* ideographs of the translations, U+D83D a lone surrogate (json.load
\* accepts the escape \ud83d, the utf-8 encoder rejects the character).
CharOrder ==
    << "U+0009", " ", "!", "'", ".",
       "0", "1", "2", "3", "4", "5", "6", "7", "8", "9",
       "A", "B", "C", "D", "E", "F", "G", "H", "I", "J", "K", "L", "M",
       "N", "O", "P", "Q", "R", "S", "T", "U", "V", "W", "X", "Y", "Z",
       "_",
       "a", "b", "c", "d", "e", "f", "g", "h", "i", "j", "k", "l", "m",
       "n", "o", "p", "q", "r", "s", "t", "u", "v", "w", "x", "y", "z",
       "U+00A0", "U+00C9", "U+00E9", "U+0663", "U+221E",
       "U+4E49", "U+56DE", "U+59CB", "U+5B9A", "U+5F00", "U+786E", "U+81EA",
       "U+8FD4", "U+D83D" >>

Ord(c) == CHOOSE i \in 1..Len(CharOrder) : CharOrder[i] = c

AsciiDigit == { CharOrder[i] : i \in 6..15 }
AsciiUpper == { CharOrder[i] : i \in 16..41 }
AsciiLower == { CharOrder[i] : i \in 43..68 }

\* [a-zA-Z0-9] of the regular expression
AsciiAlnum == AsciiLower \cup AsciiUpper \cup AsciiDigit

\* \s of re on str patterns, str.strip() and str.split(): Unicode whitespace
IsSpace(c) == c \in {" ", "U+0009", "U+00A0"}

\* str.isalnum() of one character: Unicode letters and digits
Cjk == {"U+4E49", "U+56DE", "U+59CB", "U+5B9A", "U+5F00", "U+786E", "U+81EA", "U+8FD4"}

IsAlnum(c) == c \in AsciiAlnum \cup {"U+00C9", "U+00E9", "U+0663"} \cup Cjk

\* str.lower() of one character
LowerChar(c) ==
    IF c \in AsciiUpper THEN CharOrder[Ord(c) + 27]
    ELSE IF c = "U+00C9" THEN "U+00E9"
    ELSE c

\* str.lower()
Lower(s) == [i \in 1..Len(s) |-> LowerChar(s[i])]

\* the least element of a non-empty set of integers
MinOf(S) == CHOOSE i \in S : \A j \in S : i <= j

MaxOf(S) == CHOOSE i \in S : \A j \in S : j <= i

\* s[from:]
Drop(s, from) == SubSeq(s, from, Len(s))

\* str.strip(): whitespace removed at both ends
Strip(s) ==
    LET inked == {i \in 1..Len(s) : ~IsSpace(s[i])}
    IN  IF inked = {} THEN <<>> ELSE SubSeq(s, MinOf(inked), MaxOf(inked))

\* str.lstrip()
LStrip(s) ==
    LET inked == {i \in 1..Len(s) : ~IsSpace(s[i])}
    IN  IF inked = {} THEN <<>> ELSE Drop(s, MinOf(inked))

\* re.sub(r'\s+', '_', s): every maximal run of whitespace becomes one "_"
\* ("" marks the second and later characters of a run, which are dropped)
SubSpaceRuns(s) ==
    LET marked == [i \in 1..Len(s) |->
                     IF ~IsSpace(s[i]) THEN s[i]
                     ELSE IF i > 1 /\ IsSpace(s[i - 1]) THEN "" ELSE "_"]
        Kept(c) == c # ""
    IN  SelectSeq(marked, Kept)

\* s.replace(" ", "_"): each ASCII space becomes one "_"
ReplaceSpace(s) == [i \in 1..Len(s) |-> IF s[i] = " " THEN "_" ELSE s[i]]

\* s.split(sep): split at every separator, empty pieces kept
RECURSIVE Split(_, _)
Split(s, sep) ==
    LET at == {i \in 1..Len(s) : s[i] = sep}
    IN  IF at = {} THEN <<s>>
        ELSE <<SubSeq(s, 1, MinOf(at) - 1)>> \o Split(Drop(s, MinOf(at) + 1), sep)

\* s.split(): split at runs of whitespace, no empty pieces
RECURSIVE SplitWs(_)
SplitWs(s) ==
    LET t == LStrip(s)
        at == {i \in 1..Len(t) : IsSpace(t[i])}
    IN  IF t = <<>> THEN <<>>
        ELSE IF at = {} THEN <<t>>
        ELSE <<SubSeq(t, 1, MinOf(at) - 1)>> \o SplitWs(Drop(t, MinOf(at)))

\* '_'.join(words)
RECURSIVE Join(_)
Join(words) ==
    IF words = <<>> THEN <<>>
    ELSE IF Len(words) = 1 THEN words[1]
    ELSE words[1] \o <<"_">> \o Join(Tail(words))

\* words[:n]
Take(words, n) == SubSeq(words, 1, IF Len(words) < n THEN Len(words) ELSE n)

\* str(counter) inside the f-string
RECURSIVE IntToStr(_)
IntToStr(n) ==
    IF n < 10 THEN <<CharOrder[6 + n]>>
    ELSE IntToStr(n \div 10) \o <<CharOrder[6 + (n % 10)]>>

\* a < b on str: lexicographic by code point (the order of sorted())
StrLess(a, b) ==
    LET n == IF Len(a) < Len(b) THEN Len(a) ELSE Len(b)
        diff == {i \in 1..n : a[i] # b[i]}
    IN  IF diff = {} THEN Len(a) < Len(b)
        ELSE Ord(a[MinOf(diff)]) < Ord(b[MinOf(diff)])

(***************************************************************************)
(* Key generation.                                                         *)
(***************************************************************************)

\* build_xcstrings.py
KeyCeiling50 == 50
KeyWords5 == 5
Unnamed == <<"u", "n", "n", "a", "m", "e", "d">>

\* variant: the Unicode test of str.isalnum() instead of the ASCII class
KeepAsciiAlnumOrSpace_unicode(c) == IsAlnum(c) \/ IsSpace(c)

KeepAsciiAlnumOrSpace(c) == c \in AsciiAlnum \/ IsSpace(c)

\* re.sub('[^...]', '', text) keeps the characters of the class: SelectSeq
build_generate_key(text) ==
    LET key1 == SelectSeq(text, KeepAsciiAlnumOrSpace)
        key2 == Lower(Strip(key1))
        key3 == SubSpaceRuns(key2)
        key4 == IF Len(key3) > KeyCeiling50
                THEN Join(Take(Split(key3, "_"), KeyWords5))
                ELSE key3
    IN  IF key4 # <<>> THEN key4 ELSE Unnamed

\* complete_translations.py (src/Dayflow)
KeyCeiling80 == 80
KeyWords3 == 3

KeepAlnumOrUnderscore(c) == IsAlnum(c) \/ c = "_"

\* ''.join(c for c in key if ...) keeps the characters that pass: SelectSeq
ct_generate_key(text) ==
    LET key1 == ReplaceSpace(Lower(text))
        key2 == SelectSeq(key1, KeepAlnumOrUnderscore)
        words == SplitWs(text)
    IN  IF Len(key2) > KeyCeiling80 /\ Len(words) > KeyWords3
        THEN SelectSeq(Lower(Join(Take(words, KeyWords3))), KeepAlnumOrUnderscore)
        ELSE key2

(***************************************************************************)
(* Texts of the tables and batches the runs are given.                     *)
(***************************************************************************)

T_Start == <<"S", "t", "a", "r", "t">>
T_Back == <<"B", "a", "c", "k">>
T_BackBang == <<"B", "a", "c", "k", "!">>
T_Back1 == <<"B", "a", "c", "k", " ", "1">>
T_OK == <<"O", "K">>
T_Custom == <<"C", "u", "s", "t", "o", "m">>
T_Inf == <<"U+221E">>
T_PausedFor ==
    <<"D", "a", "y", "f", "l", "o", "w", " ", "p", "a", "u", "s", "e", "d", " ", "f", "o", "r", " ">>
T_PausedForStripped ==
    <<"D", "a", "y", "f", "l", "o", "w", " ", "p", "a", "u", "s", "e", "d", " ", "f", "o", "r">>

Zh_Start == <<"U+5F00", "U+59CB">>
Zh_Back == <<"U+8FD4", "U+56DE">>
Zh_OK == <<"U+786E", "U+5B9A">>
Zh_Custom == <<"U+81EA", "U+5B9A", "U+4E49">>
Zh_PausedFor == <<"D", "a", "y", "f", "l", "o", "w", " ", "U+5DF2", "U+6682", "U+505C", " ">>
Zh_PausedForStripped == <<"D", "a", "y", "f", "l", "o", "w", " ", "U+5DF2", "U+6682", "U+505C">>
Zh_Alt == <<"U+56DE">>

K_back == <<"b", "a", "c", "k">>
K_ok == <<"o", "k">>
K_common_start == <<"c", "o", "m", "m", "o", "n", ".", "s", "t", "a", "r", "t">>
K_paused_for == <<"m", "e", "n", "u", ".", "p", "a", "u", "s", "e", "d", "_", "f", "o", "r">>
K_indefinite ==
    <<"m", "e", "n", "u", ".", "d", "u", "r", "a", "t", "i", "o", "n", ".",
      "i", "n", "d", "e", "f", "i", "n", "i", "t", "e">>

\* None of Python: a value that is no text
None == <<"None">>

\* truth value of a text or None in "if zh_value:"
Truthy(v) == v # None /\ v # <<>>

(***************************************************************************)
(* The catalog: data["strings"], an insertion-ordered dict from key to     *)
(* entry, as a sequence of [key, entry] items with distinct keys.          *)
(***************************************************************************)

Keys(strings) == {strings[i].key : i \in 1..Len(strings)}

\* key in strings
HasKey(strings, key) == \E i \in 1..Len(strings) : strings[i].key = key

\* strings[key]
Lookup(strings, key) ==
    strings[CHOOSE i \in 1..Len(strings) : strings[i].key = key].entry

\* strings[key] = entry: an existing key keeps its position, a new one is last
SetItem(strings, key, entry) ==
    IF HasKey(strings, key)
    THEN [i \in 1..Len(strings) |->
            IF strings[i].key = key THEN [key |-> key, entry |-> entry]
            ELSE strings[i]]
    ELSE Append(strings, [key |-> key, entry |-> entry])

StringUnit(state, value) == [stringUnit |-> [state |-> state, value |-> value]]

\* variant: an empty placeholder for the missing translation
create_string_unit_blank(en_value, zh_value) ==
    [l \in {"en", "zh-Hans"} |->
        IF l = "en" THEN StringUnit("translated", en_value)
        ELSE IF Truthy(zh_value) THEN StringUnit("translated", zh_value)
        ELSE StringUnit("needs_translation", <<>>)]

\* variant: the zh-Hans unit is marked translated in both cases
create_string_unit_translated(en_value, zh_value) ==
    [l \in {"en", "zh-Hans"} |->
        IF l = "en" THEN StringUnit("translated", en_value)
        ELSE IF Truthy(zh_value) THEN StringUnit("translated", zh_value)
        ELSE StringUnit("translated", en_value)]

\* build_xcstrings.py: the localizations of a new entry
create_string_unit(en_value, zh_value) ==
    IF Truthy(zh_value)
    THEN [l \in {"en", "zh-Hans"} |->
            IF l = "en" THEN StringUnit("translated", en_value)
            ELSE StringUnit("translated", zh_value)]
    ELSE [l \in {"en", "zh-Hans"} |->
            IF l = "en" THEN StringUnit("translated", en_value)
            ELSE StringUnit("needs_translation", en_value)]

\* variant: the two values change places
create_string_entry_swapped(key, en_value, zh_value) ==
    [extractionState |-> "manual",
     localizations |->
        [l \in {"en", "zh-Hans"} |->
            IF l = "en" THEN StringUnit("translated", zh_value)
            ELSE StringUnit("translated", en_value)]]

\* complete_translations.py (src/Dayflow) and the entry literal of the
\* extend scripts, which is the same
create_string_entry(key, en_value, zh_value) ==
    [extractionState |-> "manual",
     localizations |->
        [l \in {"en", "zh-Hans"} |->
            IF l = "en" THEN StringUnit("translated", en_value)
            ELSE StringUnit("translated", zh_value)]]

(***************************************************************************)
(* build_xcstrings.py                                                      *)
(***************************************************************************)

\* TRANSLATIONS of build_xcstrings.py (the entries for the texts of the model)
build_TRANSLATIONS ==
    [t \in {T_Start, T_Back, T_PausedForStripped} |->
        IF t = T_Start THEN Zh_Start
        ELSE IF t = T_Back THEN Zh_Back
        ELSE Zh_PausedForStripped]

\* dict.get(text)
DictGet(table, text) == IF text \in DOMAIN table THEN table[text] ELSE None

\* the hand-keyed entries of build_xcstrings, in their order
existing ==
    << [key |-> K_common_start, en |-> T_Start, zh |-> Zh_Start],
       [key |-> K_paused_for, en |-> T_PausedFor, zh |-> Zh_PausedFor],
       [key |-> K_indefinite, en |-> T_Inf, zh |-> T_Inf] >>

\* "Add existing translations first"
RECURSIVE AddExisting(_, _)
AddExisting(strings, items) ==
    IF items = <<>> THEN strings
    ELSE AddExisting(
            SetItem(strings, Head(items).key,
                    [extractionState |-> "manual",
                     localizations |-> create_string_unit(Head(items).en, Head(items).zh)]),
            Tail(items))

\* variant: no "Skip if already in existing"
BuildOne_noskip(strings, text) ==
    SetItem(strings, build_generate_key(text),
            [extractionState |-> "manual",
             localizations |->
                create_string_unit(text, DictGet(build_TRANSLATIONS, text))])

\* the body of "for text in strings" for one text
BuildOne(strings, text) ==
    IF \E i \in 1..Len(existing) : existing[i].en = text THEN strings
    ELSE SetItem(strings, build_generate_key(text),
                 [extractionState |-> "manual",
                  localizations |->
                     create_string_unit(text, DictGet(build_TRANSLATIONS, text))])

\* "Process all extracted strings"
RECURSIVE BuildLoop(_, _)
BuildLoop(strings, texts) ==
    IF texts = <<>> THEN strings
    ELSE BuildLoop(BuildOne(strings, Head(texts)), Tail(texts))

\* [line.strip() for line in f if line.strip()]
ReadLines(lines) ==
    LET stripped == [i \in 1..Len(lines) |-> Strip(lines[i])]
    IN  SelectSeq(stripped, LAMBDA line : line # <<>>)

\* the catalog build_xcstrings writes for the lines of extracted_strings.txt
build_xcstrings(lines) ==
    [sourceLanguage |-> "en",
     strings |-> BuildLoop(AddExisting(<<>>, existing), ReadLines(lines)),
     version |-> "1.0"]

\* number of entries whose zh-Hans unit is translated (the summary lines)
CountTranslated(strings) ==
    Cardinality({i \in 1..Len(strings) :
        /\ "zh-Hans" \in DOMAIN strings[i].entry.localizations
        /\ strings[i].entry.localizations["zh-Hans"].stringUnit.state = "translated"})

(***************************************************************************)
(* complete_translations.py (src/Dayflow): main                            *)
(***************************************************************************)

\* variant: descending order
RECURSIVE SortedTexts_descending(_)
SortedTexts_descending(S) ==
    IF S = {} THEN <<>>
    ELSE LET greatest == CHOOSE t \in S : \A u \in S \ {t} : StrLess(u, t)
         IN  <<greatest>> \o SortedTexts_descending(S \ {greatest})

\* sorted(TRANSLATIONS.items()): the texts of the table in code-point order
RECURSIVE SortedTexts(_)
SortedTexts(S) ==
    IF S = {} THEN <<>>
    ELSE LET least == CHOOSE t \in S : \A u \in S \ {t} : StrLess(t, u)
         IN  <<least>> \o SortedTexts(S \ {least})

\* "Ensure unique keys": the while loop
RECURSIVE UniqueKey(_, _, _, _)
UniqueKey(strings, original_key, key, counter) ==
    IF HasKey(strings, key)
    THEN UniqueKey(strings, original_key,
                   original_key \o <<"_">> \o IntToStr(counter), counter + 1)
    ELSE key

\* variant: the generated key is used without the loop
MainKey_unchecked(strings, en_text) == ct_generate_key(en_text)

\* the key main stores a text under, given the catalog built so far
MainKey(strings, en_text) ==
    UniqueKey(strings, ct_generate_key(en_text), ct_generate_key(en_text), 1)

\* "Add all translations"
RECURSIVE MainLoop(_, _, _)
MainLoop(strings, table, texts) ==
    IF texts = <<>> THEN strings
    ELSE LET en_text == Head(texts)
             key == MainKey(strings, en_text)
         IN  MainLoop(SetItem(strings, key,
                              create_string_entry(key, en_text, table[en_text])),
                      table, Tail(texts))

\* the catalog main writes for a translation table
main(table) ==
    [sourceLanguage |-> "en",
     strings |-> MainLoop(<<>>, table, SortedTexts(DOMAIN table)),
     version |-> "1.0"]

(***************************************************************************)
(* complete_translations.py (src/Dayflow/Dayflow): add_translations        *)
(***************************************************************************)

\* COMPLETE_TRANSLATIONS (the entries for the texts of the model)
COMPLETE_TRANSLATIONS == [t \in {T_Custom} |-> Zh_Custom]

\* entry["localizations"]["en"] raises KeyError for such an entry
LacksEn(entry) ==
    /\ "zh-Hans" \in DOMAIN entry.localizations
    /\ "en" \notin DOMAIN entry.localizations

\* variant: without the test of the state of the zh-Hans unit
TranslateEntry_any(entry) ==
    IF /\ "zh-Hans" \in DOMAIN entry.localizations
       /\ entry.localizations["en"].stringUnit.value \in DOMAIN COMPLETE_TRANSLATIONS
    THEN [entry EXCEPT !.localizations["zh-Hans"].stringUnit =
            [state |-> "translated",
             value |-> COMPLETE_TRANSLATIONS[entry.localizations["en"].stringUnit.value]]]
    ELSE entry

\* the body of "for key, entry in data['strings'].items()" on one entry
TranslateEntry(entry) ==
    IF /\ "zh-Hans" \in DOMAIN entry.localizations
       /\ entry.localizations["zh-Hans"].stringUnit.state = "needs_translation"
       /\ entry.localizations["en"].stringUnit.value \in DOMAIN COMPLETE_TRANSLATIONS
    THEN [entry EXCEPT !.localizations["zh-Hans"].stringUnit =
            [state |-> "translated",
             value |-> COMPLETE_TRANSLATIONS[entry.localizations["en"].stringUnit.value]]]
    ELSE entry

\* "Update translations"
add_translations(strings) ==
    [i \in 1..Len(strings) |->
        [key |-> strings[i].key, entry |-> TranslateEntry(strings[i].entry)]]

\* updated_count
UpdatedCount(strings) ==
    Cardinality({i \in 1..Len(strings) : TranslateEntry(strings[i].entry) # strings[i].entry})

(***************************************************************************)
(* extend_xcstrings*.py: the merge loop                                    *)
(***************************************************************************)

\* variants of the loop body: a taken key gets a numeric suffix; no test at all
ExtendOne_suffix(strings, cand) ==
    LET key == UniqueKey(strings, cand.key, cand.key, 1)
    IN  SetItem(strings, key, create_string_entry(key, cand.en, cand.zh))

ExtendOne_overwrite(strings, cand) ==
    SetItem(strings, cand.key, create_string_entry(cand.key, cand.en, cand.zh))

\* the body of "for key, en, zh in new_translations" for one candidate
ExtendOne(strings, cand) ==
    IF ~HasKey(strings, cand.key)
    THEN SetItem(strings, cand.key, create_string_entry(cand.key, cand.en, cand.zh))
    ELSE strings

\* variant: the loop ends at the first candidate whose key is taken
RECURSIVE ExtendMerge_break(_, _)
ExtendMerge_break(strings, new_translations) ==
    IF new_translations = <<>> THEN strings
    ELSE IF HasKey(strings, Head(new_translations).key) THEN strings
    ELSE ExtendMerge_break(ExtendOne(strings, Head(new_translations)),
                           Tail(new_translations))

\* "for key, en, zh in new_translations"
RECURSIVE ExtendMerge(_, _)
ExtendMerge(strings, new_translations) ==
    IF new_translations = <<>> THEN strings
    ELSE ExtendMerge(ExtendOne(strings, Head(new_translations)), Tail(new_translations))

\* the "Added: key" / "Skipped (exists): key" lines of the main() variants
RECURSIVE ExtendLines(_, _)
ExtendLines(strings, new_translations) ==
    IF new_translations = <<>> THEN <<>>
    ELSE LET cand == Head(new_translations)
         IN  << [line |-> IF HasKey(strings, cand.key) THEN "Skipped (exists)" ELSE "Added",
                 key |-> cand.key] >>
             \o ExtendLines(ExtendOne(strings, cand), Tail(new_translations))

(***************************************************************************)
(* State.                                                                  *)
(***************************************************************************)

VARIABLES
    exists,     \* Localizable.xcstrings is on disk
    doc,        \* its JSON document: sourceLanguage, strings, version
    last,       \* the last script run: script, status (ok or the exception), stdout
    extracted,  \* the lines of extracted_strings.txt, stripped, the empty ones dropped
    table,      \* TRANSLATIONS of complete_translations.py (src/Dayflow)
    arg,        \* the text a key is generated for
    key_build,  \* result of build_xcstrings.generate_key(arg), None before the call
    key_ct,     \* result of complete_translations.generate_key(arg), None before the call
    whole,      \* the file holds a complete JSON document (FALSE after a cut write)
    journal,    \* history of the merge runs: the document before the first run
                \* (initial), the keys of the candidates of the extend runs that
                \* finished (keys), only extend runs have written so far (pure)
    scan,       \* a run of a source scanner: the Swift files it finds, how far
                \* it has got, all_strings, its output so far
    proc        \* two invocations of extend scripts on the same file: where
                \* each one is, its new_translations and its data, and the
                \* order of their loads and writes so far

vars ==
    <<exists, doc, last, extracted, table, arg, key_build, key_ct, whole, journal,
      scan, proc>>

catalogVars == <<exists, doc, last>>
inputVars == <<extracted, table>>
keyVars == <<arg, key_build, key_ct>>
runVars == <<whole, journal>>
sideVars == <<scan, proc>>

(***************************************************************************)
(* Inputs of the runs.                                                     *)
(***************************************************************************)

MaxStrings == 2
MaxBatch == 2
MaxLen == 3
MaxWords == 6
LongWordLen == 30

SeqsUpTo(S, n) == UNION {[1..m -> S] : m \in 0..n}

\* lines of extracted_strings.txt: stripped and not empty
ExtractedTexts == {T_Start, T_Back, T_BackBang, T_Custom}
ExtractedLists == SeqsUpTo(ExtractedTexts, MaxStrings)

\* translation tables of main: every sub-table of these entries
TableEntries ==
    [t \in {T_Start, T_Back, T_BackBang, T_Back1, T_OK, T_Inf} |->
        CASE t = T_Start -> Zh_Start
          [] t = T_Back -> Zh_Back
          [] t = T_OK -> Zh_OK
          [] t = T_Inf -> T_Inf
          [] OTHER -> Zh_Alt]
Tables == {[t \in D |-> TableEntries[t]] : D \in SUBSET DOMAIN TableEntries}

\* candidates of the extend batches
Candidates ==
    { [key |-> K_back, en |-> T_Back, zh |-> Zh_Back],
      [key |-> K_back, en |-> T_Back, zh |-> Zh_Alt],
      [key |-> K_ok, en |-> T_OK, zh |-> Zh_OK] }
Batches == SeqsUpTo(Candidates, MaxBatch)

\* arguments of generate_key: every short text over these characters, and
\* texts of up to MaxWords words, some of them long
KeyAlphabet == {"a", "A", "1", " ", "U+0009", ".", "_", "U+00E9", "U+0663", "U+221E"}
ShortTexts == SeqsUpTo(KeyAlphabet, MaxLen)

LongWord == [i \in 1..LongWordLen |-> IF i % 2 = 1 THEN "W" ELSE "o"]
Words == {<<"a", "1">>, LongWord, <<"U+00C9", ".">>}
Separators == {<<" ">>, <<" ", "U+0009">>, <<" ", ".", " ">>}

RECURSIVE JoinWith(_, _)
JoinWith(words, sep) ==
    IF words = <<>> THEN <<>>
    ELSE IF Len(words) = 1 THEN words[1]
    ELSE words[1] \o sep \o JoinWith(Tail(words), sep)

LongTexts ==
    {JoinWith(ws, sep) : ws \in UNION {[1..m -> Words] : m \in 1..MaxWords},
                         sep \in Separators}

KeyInputs == ShortTexts \cup LongTexts

(***************************************************************************)
(* The script runs.                                                        *)
(***************************************************************************)

EmptyDoc == [sourceLanguage |-> "en", strings |-> <<>>, version |-> "1.0"]

Report(script, status, stdout) == [script |-> script, status |-> status, stdout |-> stdout]

\* the history before the first merge run on a document
Journal(document) == [initial |-> document, keys |-> {}, pure |-> TRUE]

\* no scanner has been started
NoScan ==
    [scanner |-> "none", files |-> <<>>, done |-> 0, all_strings |-> {},
     status |-> "idle", stdout |-> <<>>, written |-> FALSE]

\* no invocation has been started
NoInvocations ==
    [inv |-> [p \in {1, 2} |-> [pc |-> "idle", new_translations |-> <<>>, data |-> <<>>]],
     log |-> <<>>]

\* python build_xcstrings.py
RunBuildXcstrings ==
    LET xcstrings == build_xcstrings(extracted)
    IN  /\ exists' = TRUE
        /\ doc' = xcstrings
        /\ last' = Report("build_xcstrings", "ok",
                      << [line |-> "Generated", n |-> Len(xcstrings.strings)],
                         [line |-> "Translated", n |-> CountTranslated(xcstrings.strings)] >>)
        /\ UNCHANGED <<inputVars, keyVars, runVars, sideVars>>

\* python complete_translations.py (src/Dayflow)
RunMain ==
    LET xcstrings == main(table)
    IN  /\ exists' = TRUE
        /\ doc' = xcstrings
        /\ last' = Report("main", "ok",
                      << [line |-> "Generated", n |-> Len(xcstrings.strings)] >>)
        /\ UNCHANGED <<inputVars, keyVars, runVars, sideVars>>

\* python complete_translations.py (src/Dayflow/Dayflow)
RunAddTranslations ==
    /\ IF ~exists
       THEN /\ last' = Report("add_translations", "FileNotFoundError", <<>>)
            /\ UNCHANGED <<exists, doc>>
       ELSE IF \E i \in 1..Len(doc.strings) : LacksEn(doc.strings[i].entry)
       THEN /\ last' = Report("add_translations", "KeyError", <<>>)
            /\ UNCHANGED <<exists, doc>>
       ELSE /\ doc' = [doc EXCEPT !.strings = add_translations(@)]
            /\ UNCHANGED exists
            /\ last' = IF Len(doc.strings) = 0
                       THEN Report("add_translations", "ZeroDivisionError",
                               << [line |-> "Added", n |-> UpdatedCount(doc.strings)] >>)
                       ELSE Report("add_translations", "ok",
                               << [line |-> "Added", n |-> UpdatedCount(doc.strings)],
                                  [line |-> "Total",
                                   n |-> CountTranslated(add_translations(doc.strings))] >>)
    /\ UNCHANGED <<inputVars, keyVars, runVars, sideVars>>

\* an extend script whose body is at module level (extend_xcstrings.py,
\* _settings, _mainview, ...): the summary counts the whole batch
RunExtendScript(new_translations) ==
    /\ IF ~exists
       THEN /\ last' = Report("extend", "FileNotFoundError", <<>>)
            /\ UNCHANGED <<exists, doc>>
       ELSE /\ doc' = [doc EXCEPT !.strings = ExtendMerge(@, new_translations)]
            /\ UNCHANGED exists
            /\ last' = Report("extend", "ok",
                          << [line |-> "Added", n |-> Len(new_translations)],
                             [line |-> "Total strings",
                              n |-> Len(ExtendMerge(doc.strings, new_translations))] >>)
    /\ UNCHANGED <<inputVars, keyVars, runVars, sideVars>>

\* an extend script with a main() (extend_xcstrings_fixes.py, _language):
\* one line per candidate
RunExtendMain(new_translations) ==
    /\ IF ~exists
       THEN /\ last' = Report("extend", "FileNotFoundError", <<>>)
            /\ UNCHANGED <<exists, doc>>
       ELSE /\ doc' = [doc EXCEPT !.strings = ExtendMerge(@, new_translations)]
            /\ UNCHANGED exists
            /\ last' = Report("extend", "ok",
                          ExtendLines(doc.strings, new_translations)
                          \o << [line |-> "Total strings",
                                 n |-> Len(ExtendMerge(doc.strings, new_translations))] >>)
    /\ UNCHANGED <<inputVars, keyVars, runVars, sideVars>>

Init ==
    /\ exists = FALSE
    /\ doc = EmptyDoc
    /\ last = Report("none", "ok", <<>>)
    /\ extracted \in ExtractedLists
    /\ table = TableEntries
    /\ arg = <<>>
    /\ key_build = None
    /\ key_ct = None
    /\ whole = TRUE
    /\ journal = Journal(EmptyDoc)
    /\ scan = NoScan
    /\ proc = NoInvocations

Next ==
    \/ RunBuildXcstrings
    \/ RunMain
    \/ RunAddTranslations
    \/ \E batch \in Batches : RunExtendScript(batch)
    \/ \E batch \in Batches : RunExtendMain(batch)

Spec == Init /\ [][Next]_vars

(***************************************************************************)
(* main on its own, for every translation table.                           *)
(***************************************************************************)

InitMain ==
    /\ exists = FALSE
    /\ doc = EmptyDoc
    /\ last = Report("none", "ok", <<>>)
    /\ extracted = <<>>
    /\ table \in Tables
    /\ arg = <<>>
    /\ key_build = None
    /\ key_ct = None
    /\ whole = TRUE
    /\ journal = Journal(EmptyDoc)
    /\ scan = NoScan
    /\ proc = NoInvocations

NextMain == RunMain

SpecMain == InitMain /\ [][NextMain]_vars

(***************************************************************************)
(* Key generation on its own: one text, each generate_key called on it.    *)
(***************************************************************************)

CallBuildGenerateKey ==
    /\ key_build = None
    /\ key_build' = build_generate_key(arg)
    /\ UNCHANGED <<arg, key_ct, catalogVars, inputVars, runVars, sideVars>>

CallCtGenerateKey ==
    /\ key_ct = None
    /\ key_ct' = ct_generate_key(arg)
    /\ UNCHANGED <<arg, key_build, catalogVars, inputVars, runVars, sideVars>>

InitKey ==
    /\ exists = FALSE
    /\ doc = EmptyDoc
    /\ last = Report("none", "ok", <<>>)
    /\ extracted = <<>>
    /\ table = TableEntries
    /\ arg \in KeyInputs
    /\ key_build = None
    /\ key_ct = None
    /\ whole = TRUE
    /\ journal = Journal(EmptyDoc)
    /\ scan = NoScan
    /\ proc = NoInvocations

NextKey == CallBuildGenerateKey \/ CallCtGenerateKey

SpecKey == InitKey /\ [][NextKey]_vars

(***************************************************************************)
(* The merge scripts on a catalog that is already on disk, with the        *)
(* failures of the file system: load, merge, write.                        *)
(***************************************************************************)

\* variants: a missing file is taken as an empty catalog; so is a file that
\* cannot be opened
Load_create(on_disk, complete, denied) ==
    IF ~on_disk THEN "ok"
    ELSE IF denied THEN "PermissionError"
    ELSE IF ~complete THEN "JSONDecodeError"
    ELSE "ok"

Load_fallback(on_disk, complete, denied) ==
    IF ~on_disk \/ denied THEN "ok"
    ELSE IF ~complete THEN "JSONDecodeError"
    ELSE "ok"

\* with open(..., "r") as f: data = json.load(f): the exception that ends the
\* run, or "ok"
Load(on_disk, complete, denied) ==
    IF ~on_disk THEN "FileNotFoundError"
    ELSE IF denied THEN "PermissionError"
    ELSE IF ~complete THEN "JSONDecodeError"
    ELSE "ok"

\* the utf-8 encoder of the file accepts the text
Encodable(text) == \A i \in 1..Len(text) : text[i] # "U+D83D"

EncodableItem(item) ==
    /\ Encodable(item.key)
    /\ \A l \in DOMAIN item.entry.localizations :
          Encodable(item.entry.localizations[l].stringUnit.value)

\* variant: json.dump(..., sort_keys=True)
Dump_sort_keys(strings, full) ==
    LET bad == {i \in 1..Len(strings) : ~EncodableItem(strings[i])}
        order == SortedTexts(Keys(strings))
        sorted == [i \in 1..Len(order) |->
                     [key |-> order[i], entry |-> Lookup(strings, order[i])]]
    IN  IF full THEN [status |-> "OSError", written |-> <<>>]
        ELSE IF bad # {}
        THEN [status |-> "UnicodeEncodeError", written |-> SubSeq(strings, 1, MinOf(bad) - 1)]
        ELSE [status |-> "ok", written |-> sorted]

\* with open(..., "w") as f: json.dump(data, f, ensure_ascii=False, indent=2).
\* open truncates the file and json.dump writes it piece by piece, the items
\* of data["strings"] in the order of the dict: the exception that ends the
\* run ("ok" if none) and the items that are in the file afterwards.  An item
\* the encoder rejects ends the write there; on a full disk nothing gets
\* written.
Dump(strings, full) ==
    LET bad == {i \in 1..Len(strings) : ~EncodableItem(strings[i])}
    IN  IF full THEN [status |-> "OSError", written |-> <<>>]
        ELSE IF bad # {}
        THEN [status |-> "UnicodeEncodeError", written |-> SubSeq(strings, 1, MinOf(bad) - 1)]
        ELSE [status |-> "ok", written |-> strings]

CandidateKeys(new_translations) ==
    {new_translations[i].key : i \in 1..Len(new_translations)}

\* an extend script run on the file; has_main: the script is one of those
\* with a main(), which print one line per candidate while merging
ExtendRun(has_main, new_translations, denied, full) ==
    LET loaded == Load(exists, whole, denied)
        merged == ExtendMerge(doc.strings, new_translations)
        lines == IF has_main THEN ExtendLines(doc.strings, new_translations) ELSE <<>>
        dumped == Dump(merged, full)
    IN  /\ IF loaded # "ok"
           THEN /\ last' = Report("extend", loaded, <<>>)
                /\ UNCHANGED <<exists, doc, whole, journal>>
           ELSE IF dumped.status # "ok"
           THEN /\ exists' = TRUE
                /\ whole' = FALSE
                /\ doc' = [doc EXCEPT !.strings = dumped.written]
                /\ last' = Report("extend", dumped.status, lines)
                /\ UNCHANGED journal
           ELSE /\ exists' = TRUE
                /\ whole' = TRUE
                /\ doc' = [doc EXCEPT !.strings = dumped.written]
                /\ last' = Report("extend", "ok",
                              (IF has_main THEN lines
                               ELSE << [line |-> "Added", n |-> Len(new_translations)] >>)
                              \o << [line |-> "Total strings", n |-> Len(merged)] >>)
                /\ journal' = [journal EXCEPT
                                  !.keys = @ \cup CandidateKeys(new_translations)]
        /\ UNCHANGED <<inputVars, keyVars, sideVars>>

\* add_translations run on the file
AddTranslationsRun(denied, full) ==
    LET loaded == Load(exists, whole, denied)
        updated == add_translations(doc.strings)
        dumped == Dump(updated, full)
    IN  /\ IF loaded # "ok"
           THEN /\ last' = Report("add_translations", loaded, <<>>)
                /\ UNCHANGED <<exists, doc, whole, journal>>
           ELSE IF \E i \in 1..Len(doc.strings) : LacksEn(doc.strings[i].entry)
           THEN /\ last' = Report("add_translations", "KeyError", <<>>)
                /\ UNCHANGED <<exists, doc, whole, journal>>
           ELSE IF dumped.status # "ok"
           THEN /\ exists' = TRUE
                /\ whole' = FALSE
                /\ doc' = [doc EXCEPT !.strings = dumped.written]
                /\ last' = Report("add_translations", dumped.status, <<>>)
                /\ journal' = [journal EXCEPT !.pure = FALSE]
           ELSE /\ exists' = TRUE
                /\ whole' = TRUE
                /\ doc' = [doc EXCEPT !.strings = dumped.written]
                /\ last' = IF Len(doc.strings) = 0
                           THEN Report("add_translations", "ZeroDivisionError",
                                   << [line |-> "Added", n |-> UpdatedCount(doc.strings)] >>)
                           ELSE Report("add_translations", "ok",
                                   << [line |-> "Added", n |-> UpdatedCount(doc.strings)],
                                      [line |-> "Total", n |-> CountTranslated(updated)] >>)
                /\ journal' = [journal EXCEPT !.pure = FALSE]
        /\ UNCHANGED <<inputVars, keyVars, sideVars>>

K_custom == <<"c", "u", "s", "t", "o", "m">>
K_custom_1 == <<"c", "u", "s", "t", "o", "m", "_", "1">>
K_start == <<"s", "t", "a", "r", "t">>
T_Surrogate == <<"O", "U+D83D", "K">>

Item(key, extractionState, localizations) ==
    [key |-> key,
     entry |-> [extractionState |-> extractionState, localizations |-> localizations]]

\* catalogs found on disk: empty; as main and build_xcstrings write them;
\* with a record that has no en unit; with a record that has no unit at all;
\* with a text that holds a lone surrogate; with a translation that is not
\* the one of the table of add_translations and a record that has no zh-Hans
\* unit
DiskCatalogs ==
    { <<>>,
      << Item(K_start, "manual", create_string_entry(K_start, T_Start, Zh_Start).localizations) >>,
      << Item(K_custom, "manual", create_string_unit(T_Custom, None)),
         Item(K_back, "manual", create_string_unit(T_BackBang, None)) >>,
      << Item(K_custom, "manual", create_string_unit(T_Custom, None)),
         Item(K_ok, "manual",
              [l \in {"zh-Hans"} |-> StringUnit("needs_translation", T_OK)]) >>,
      << Item(K_back, "manual", [l \in {} |-> StringUnit("new", <<>>)]) >>,
      << Item(K_custom, "manual", create_string_unit(T_Custom, None)),
         Item(K_ok, "manual", create_string_unit(T_Surrogate, None)),
         Item(K_back, "manual", create_string_unit(T_Back, Zh_Back)) >>,
      << Item(K_custom, "manual", create_string_unit(T_Custom, Zh_Alt)),
         Item(K_custom_1, "manual", create_string_unit(T_Custom, None)),
         Item(K_ok, "manual", [l \in {"en"} |-> StringUnit("translated", T_OK)]) >> }

InitMerge ==
    /\ exists \in BOOLEAN
    /\ doc \in {[EmptyDoc EXCEPT !.strings = c] : c \in DiskCatalogs}
    /\ ~exists => doc = EmptyDoc
    /\ whole = TRUE
    /\ journal = Journal(doc)
    /\ scan = NoScan
    /\ proc = NoInvocations
    /\ last = Report("none", "ok", <<>>)
    /\ extracted = <<>>
    /\ table = TableEntries
    /\ arg = <<>>
    /\ key_build = None
    /\ key_ct = None

NextMerge ==
    \/ \E has_main \in BOOLEAN, batch \in Batches, denied \in BOOLEAN, full \in BOOLEAN :
          ExtendRun(has_main, batch, denied, full)
    \/ \E denied \in BOOLEAN, full \in BOOLEAN : AddTranslationsRun(denied, full)

SpecMerge == InitMerge /\ [][NextMerge]_vars

(***************************************************************************)
(* Properties.                                                             *)
(***************************************************************************)

EnOf(entry) == entry.localizations["en"].stringUnit.value
ZhOf(entry) == entry.localizations["zh-Hans"].stringUnit.value
Chars(s) == {s[i] : i \in 1..Len(s)}

\* [a-z0-9_]
KeySafeChars == AsciiLower \cup AsciiDigit \cup {"_"}

K_back_1 == K_back \o <<"_", "1">>
K_back_2 == K_back \o <<"_", "2">>

\* C1: an extend run is idempotent: for the persisted catalog and every
\* batch, merging the batch into the catalog a run with that batch writes
\* yields that same catalog again (same keys, same records, same size).
C1_ExtendIdempotent ==
    exists =>
        \A b \in Batches :
            ExtendMerge(ExtendMerge(doc.strings, b), b) = ExtendMerge(doc.strings, b)

\* an extend run with at least one candidate, all of them skipped, on a
\* catalog that holds the candidate's record: what a second run looks like
C1_Witness ==
    /\ last.script = "extend" /\ last.status = "ok"
    /\ Len(last.stdout) >= 2
    /\ \A i \in 1..(Len(last.stdout) - 1) : last.stdout[i].line = "Skipped (exists)"
    /\ last.stdout[1].key = K_ok
    /\ HasKey(doc.strings, K_ok)
    /\ Lookup(doc.strings, K_ok) = create_string_entry(K_ok, T_OK, Zh_OK)

\* C2: for the persisted catalog and every batch, the merge of an extend run
\* leaves every entry of the catalog unchanged, whatever the candidates
\* carry, and an extend run that found the catalog ends without an error.
C2_ExistingWins ==
    exists =>
        /\ last.script = "extend" => last.status = "ok"
        /\ \A b \in Batches : \A k \in Keys(doc.strings) :
              /\ HasKey(ExtendMerge(doc.strings, b), k)
              /\ Lookup(ExtendMerge(doc.strings, b), k) = Lookup(doc.strings, k)

\* a candidate with key "back" was skipped while the catalog holds, under
\* that key, the record of "Back!", which no candidate carries
C2_Witness ==
    /\ last.script = "extend" /\ last.status = "ok"
    /\ \E i \in 1..Len(last.stdout) :
          last.stdout[i] = [line |-> "Skipped (exists)", key |-> K_back]
    /\ HasKey(doc.strings, K_back)
    /\ EnOf(Lookup(doc.strings, K_back)) = T_BackBang

\* C3: right after build_xcstrings, every extracted text is the en value of
\* exactly one entry of the catalog.
C3_EachExtractedTextOnce ==
    last.script = "build_xcstrings" =>
        \A j \in 1..Len(extracted) :
            Cardinality({i \in 1..Len(doc.strings) :
                            EnOf(doc.strings[i].entry) = extracted[j]}) = 1

Suffixed(key, n) == key \o <<"_">> \o IntToStr(n)

\* C4: right after main, the catalog has one entry per entry of the table,
\* under distinct keys, each carrying its text and translation; the key of an
\* entry is the generated key if no earlier entry has it, otherwise the first
\* of key_1, key_2, ... that no earlier entry has.
C4_MainDistinctKeys ==
    last.script = "main" =>
        /\ Len(doc.strings) = Cardinality(DOMAIN table)
        /\ Cardinality(Keys(doc.strings)) = Len(doc.strings)
        /\ \A t \in DOMAIN table :
              \E i \in 1..Len(doc.strings) :
                  /\ EnOf(doc.strings[i].entry) = t
                  /\ ZhOf(doc.strings[i].entry) = table[t]
        /\ \A i \in 1..Len(doc.strings) :
              LET earlier == Keys(SubSeq(doc.strings, 1, i - 1))
                  generated == ct_generate_key(EnOf(doc.strings[i].entry))
                  key == doc.strings[i].key
              IN  IF generated \notin earlier THEN key = generated
                  ELSE \E n \in 1..Len(doc.strings) :
                          /\ key = Suffixed(generated, n)
                          /\ key \notin earlier
                          /\ \A m \in 1..(n - 1) : Suffixed(generated, m) \in earlier

\* three texts generated the key "back" or "back_1": the last got "back_2"
C4_Witness ==
    /\ last.script = "main"
    /\ HasKey(doc.strings, K_back_2)
    /\ EnOf(Lookup(doc.strings, K_back_2)) = T_BackBang

C6_CtKeyCharset ==
    key_ct # None => \A i \in 1..Len(key_ct) : key_ct[i] \in KeySafeChars

\* C7: for a non-empty text without any ASCII letter or digit both
\* generate_key variants return "unnamed".
C7_Sentinel ==
    (arg # <<>> /\ \A i \in 1..Len(arg) : arg[i] \notin AsciiAlnum) =>
        /\ key_build # None => key_build = Unnamed
        /\ key_ct # None => key_ct = Unnamed

KeyOfText(strings, t) ==
    strings[CHOOSE i \in 1..Len(strings) : EnOf(strings[i].entry) = t].key

SubTable(tab, D) == [t \in D |-> tab[t]]

\* C8, as stated: the key main stores a text under is the same for every
\* sub-table that contains the text.
C8_KeyStable ==
    last.script = "main" =>
        \A D \in SUBSET DOMAIN table : \A t \in D :
            KeyOfText(main(SubTable(table, D)).strings, t) = KeyOfText(doc.strings, t)

\* C8 amended: the key main stores a text under depends only on the text and
\* the entries that sort before it: removing entries that sort after the text
\* leaves its key unchanged, and the key is the generated key whenever no
\* entry that sorts before the text is stored under that key.
C8_KeyStableAmended ==
    last.script = "main" =>
        /\ \A D \in SUBSET DOMAIN table : \A t \in D :
              (\A u \in (DOMAIN table) \ D : StrLess(t, u)) =>
                  KeyOfText(main(SubTable(table, D)).strings, t)
                     = KeyOfText(doc.strings, t)
        /\ \A t \in DOMAIN table :
              (\A u \in DOMAIN table :
                  StrLess(u, t) => KeyOfText(doc.strings, u) # ct_generate_key(t))
              => KeyOfText(doc.strings, t) = ct_generate_key(t)

\* "Back" and "Back!" both generate "back"; "Back!" sorts later and is
\* stored under "back_1"
C8_Witness ==
    /\ last.script = "main"
    /\ {T_Back, T_BackBang} \subseteq DOMAIN table
    /\ T_Back1 \notin DOMAIN table
    /\ KeyOfText(doc.strings, T_Back) = K_back
    /\ KeyOfText(doc.strings, T_BackBang) = K_back_1

\* C10: in the persisted catalog every zh-Hans unit in state
\* needs_translation has a non-empty value equal to the entry's en value.
C10_Placeholder ==
    exists =>
        \A i \in 1..Len(doc.strings) :
            LET loc == doc.strings[i].entry.localizations
            IN  ("zh-Hans" \in DOMAIN loc
                 /\ loc["zh-Hans"].stringUnit.state = "needs_translation") =>
                    /\ loc["zh-Hans"].stringUnit.value # <<>>
                    /\ loc["zh-Hans"].stringUnit.value = loc["en"].stringUnit.value

\* after build_xcstrings, an extend run that added "ok" and add_translations
\* that translated "Custom", the entry of "Back!" still needs translation
C10_Witness ==
    /\ last.script = "add_translations" /\ last.status = "ok"
    /\ HasKey(doc.strings, K_ok)
    /\ \E i \in 1..Len(doc.strings) :
          /\ EnOf(doc.strings[i].entry) = T_Custom
          /\ ZhOf(doc.strings[i].entry) = Zh_Custom
    /\ \E i \in 1..Len(doc.strings) :
          /\ EnOf(doc.strings[i].entry) = T_BackBang
          /\ doc.strings[i].entry.localizations["zh-Hans"].stringUnit.state
                = "needs_translation"

\* the en unit of a record is there, translated, with this value
EnUnitIs(entry, text) ==
    /\ "en" \in DOMAIN entry.localizations
    /\ entry.localizations["en"].stringUnit = [state |-> "translated", value |-> text]

\* the first candidate of a batch with a key
FirstWithKey(new_translations, key) ==
    new_translations[MinOf({i \in 1..Len(new_translations) :
                               new_translations[i].key = key})]

\* C11: every record of the persisted catalog has an en unit in state
\* translated; a record build_xcstrings wrote carries the hand-keyed or
\* extracted text it was made from, a record main wrote a text of the table,
\* a record an extend merge inserts the en text of the first candidate with
\* its key, and add_translations leaves every en unit as it is.
C11_SourceLocale ==
    exists =>
        /\ \A i \in 1..Len(doc.strings) :
              EnUnitIs(doc.strings[i].entry, EnOf(doc.strings[i].entry))
        /\ last.script = "build_xcstrings" =>
              \A i \in 1..Len(doc.strings) :
                  \/ \E j \in 1..Len(existing) :
                        /\ doc.strings[i].key = existing[j].key
                        /\ EnUnitIs(doc.strings[i].entry, existing[j].en)
                  \/ \E j \in 1..Len(extracted) :
                        /\ doc.strings[i].key = build_generate_key(extracted[j])
                        /\ EnUnitIs(doc.strings[i].entry, extracted[j])
        /\ last.script = "main" =>
              /\ \A i \in 1..Len(doc.strings) : EnOf(doc.strings[i].entry) \in DOMAIN table
              /\ \A t \in DOMAIN table :
                    \E i \in 1..Len(doc.strings) : EnUnitIs(doc.strings[i].entry, t)
        /\ \A b \in Batches :
              LET merged == ExtendMerge(doc.strings, b)
              IN  \A i \in 1..Len(merged) :
                      IF HasKey(doc.strings, merged[i].key)
                      THEN merged[i].entry = Lookup(doc.strings, merged[i].key)
                      ELSE EnUnitIs(merged[i].entry, FirstWithKey(b, merged[i].key).en)
        /\ \A i \in 1..Len(doc.strings) :
              add_translations(doc.strings)[i].entry.localizations["en"]
                 = doc.strings[i].entry.localizations["en"]

\* an extend run added "ok" to a catalog build_xcstrings wrote and
\* add_translations completed: records of three scripts side by side
C11_Witness ==
    /\ last.script = "extend" /\ last.status = "ok"
    /\ \E i \in 1..Len(last.stdout) : last.stdout[i] = [line |-> "Added", key |-> K_ok]
    /\ HasKey(doc.strings, K_common_start)
    /\ HasKey(doc.strings, K_ok)
    /\ EnOf(Lookup(doc.strings, K_ok)) = T_OK
    /\ \E i \in 1..Len(doc.strings) :
          /\ EnOf(doc.strings[i].entry) = T_Custom
          /\ ZhOf(doc.strings[i].entry) = Zh_Custom

\* a record without an en unit
Malformed(strings) ==
    \E i \in 1..Len(strings) : "en" \notin DOMAIN strings[i].entry.localizations

\* C12: a merge run that loads a catalog with a record that has no en unit
\* ends with an error and leaves the file as it was.
C12_FailFast ==
    [][(exists /\ whole /\ Malformed(doc.strings)) =>
          /\ last'.status # "ok"
          /\ exists' = exists /\ whole' = whole /\ doc' = doc]_vars

\* the localizations the claim describes for a text and the static table
LookedUp(tab, text) ==
    [l \in {"en", "zh-Hans"} |->
        IF l = "en" THEN [stringUnit |-> [state |-> "translated", value |-> text]]
        ELSE IF text \in DOMAIN tab
             THEN [stringUnit |-> [state |-> "translated", value |-> tab[text]]]
             ELSE [stringUnit |-> [state |-> "needs_translation", value |-> text]]]

HandKeyedTexts == {existing[i].en : i \in 1..Len(existing)}

\* C13: right after build_xcstrings, every extracted text that is not one of
\* the hand-keyed texts got, when its turn came, a record under its generated
\* key with en translated and zh-Hans translated with the table's value if
\* the table has the text, zh-Hans needs_translation with the text otherwise;
\* and every record of the written catalog that carries an extracted text is
\* of that form.
C13_TranslationLookup ==
    last.script = "build_xcstrings" =>
        /\ \A j \in 1..Len(extracted) :
              extracted[j] \notin HandKeyedTexts =>
                 LET before == BuildLoop(AddExisting(<<>>, existing),
                                         SubSeq(extracted, 1, j - 1))
                     after == BuildOne(before, extracted[j])
                 IN  /\ HasKey(after, build_generate_key(extracted[j]))
                     /\ Lookup(after, build_generate_key(extracted[j])).localizations
                           = LookedUp(build_TRANSLATIONS, extracted[j])
        /\ \A i \in 1..Len(doc.strings) :
              (\E j \in 1..Len(extracted) :
                   /\ extracted[j] \notin HandKeyedTexts
                   /\ EnOf(doc.strings[i].entry) = extracted[j])
              => doc.strings[i].entry.localizations
                    = LookedUp(build_TRANSLATIONS, EnOf(doc.strings[i].entry))

\* "Back" is in the table and "Custom" is not
C13_Witness ==
    /\ last.script = "build_xcstrings"
    /\ extracted = <<T_Back, T_Custom>>
    /\ Lookup(doc.strings, K_back).localizations["zh-Hans"].stringUnit
          = [state |-> "translated", value |-> Zh_Back]
    /\ Lookup(doc.strings, K_custom).localizations["zh-Hans"].stringUnit
          = [state |-> "needs_translation", value |-> T_Custom]

\* en "Start" translated, zh-Hans "开始" translated
StartLocalizations ==
    [l \in {"en", "zh-Hans"} |->
        IF l = "en" THEN [stringUnit |-> [state |-> "translated", value |-> T_Start]]
        ELSE [stringUnit |-> [state |-> "translated", value |-> Zh_Start]]]

\* C14, as stated: build_xcstrings on the one extracted text "Start", and
\* main on a table with "Start" -> "开始", write under the key start the
\* record with en "Start" and zh-Hans "开始", both translated.
C14_StartExample ==
    ((last.script = "build_xcstrings" /\ extracted = <<T_Start>>)
        \/ (last.script = "main" /\ DictGet(table, T_Start) = Zh_Start))
    => /\ HasKey(doc.strings, K_start)
       /\ Lookup(doc.strings, K_start).localizations = StartLocalizations

\* C14 amended: main writes that record under the key start; build_xcstrings
\* on the one extracted text "Start" skips the text, because it is one of the
\* hand-keyed texts: the record is under the key common.start, it is the only
\* record with en "Start", and there is no key start.
C14_StartExampleAmended ==
    /\ (last.script = "main" /\ DictGet(table, T_Start) = Zh_Start) =>
          /\ HasKey(doc.strings, K_start)
          /\ Lookup(doc.strings, K_start).localizations = StartLocalizations
    /\ (last.script = "build_xcstrings" /\ extracted = <<T_Start>>) =>
          /\ ~HasKey(doc.strings, K_start)
          /\ HasKey(doc.strings, K_common_start)
          /\ Lookup(doc.strings, K_common_start).localizations = StartLocalizations
          /\ \A i \in 1..Len(doc.strings) :
                EnOf(doc.strings[i].entry) = T_Start
                   => doc.strings[i].key = K_common_start

\* main has written the record of "Start" under start
C14_Witness ==
    /\ last.script = "main"
    /\ DictGet(table, T_Start) = Zh_Start
    /\ \E i \in 1..Len(doc.strings) :
          /\ doc.strings[i].key = K_start
          /\ EnOf(doc.strings[i].entry) = T_Start
          /\ ZhOf(doc.strings[i].entry) = Zh_Start

\* C15: after a run of a merge script, however it ended, the file is as it
\* was before the run, or it holds the complete, fully merged catalog.
C15_CompleteOrNothing ==
    [][\/ exists' = exists /\ whole' = whole /\ doc' = doc
       \/ /\ exists' /\ whole'
          /\ \/ /\ last'.script = "extend"
                /\ \E b \in Batches : doc'.strings = ExtendMerge(doc.strings, b)
             \/ /\ last'.script = "add_translations"
                /\ doc'.strings = add_translations(doc.strings)]_vars

\* C16: an extend or add_translations run on a file that is missing ends with
\* FileNotFoundError, and a run that ends with FileNotFoundError or
\* PermissionError has printed nothing and has left the file as it was: still
\* missing, or with the same content.
C16_LoadFailureFatal ==
    [][/\ ~exists => last'.status = "FileNotFoundError"
       /\ last'.status \in {"FileNotFoundError", "PermissionError"} =>
             /\ last'.script \in {"extend", "add_translations"}
             /\ last'.stdout = <<>>
             /\ exists' = exists /\ whole' = whole /\ doc' = doc
             /\ journal' = journal]_vars

\* a run was denied the read of a catalog with records; the catalog is the
\* one that was there before the first run
C16_Witness ==
    /\ last.script = "add_translations" /\ last.status = "PermissionError"
    /\ exists /\ whole
    /\ doc.strings # <<>>
    /\ doc = journal.initial

\* C17, as stated: an extend run that finds no catalog file starts from an
\* empty catalog and writes a complete catalog with exactly the records of
\* its batch.
C17_MissingCreatedEmpty ==
    [][(~exists /\ last'.script = "extend") =>
          /\ exists' /\ whole'
          /\ last'.status = "ok"
          /\ \E b \in Batches :
                /\ journal'.keys = CandidateKeys(b)
                /\ doc'.strings = ExtendMerge(<<>>, b)]_vars

\* C17 amended: an extend run that finds no catalog file ends with
\* FileNotFoundError before it has merged or printed anything, and creates
\* no file.
C17_MissingIsFatal ==
    [][(~exists /\ last'.script = "extend") =>
          /\ last'.status = "FileNotFoundError"
          /\ last'.stdout = <<>>
          /\ ~exists'
          /\ journal'.keys = {}]_vars

\* an extend run has ended on the missing file and there is still no file
C17_Witness ==
    /\ ~exists
    /\ last.script = "extend" /\ last.status = "FileNotFoundError"
    /\ journal.keys = {}

\* the number of entries the output of an extend run reports as added: the
\* count of the "Added {n} new translations" line of the scripts without a
\* main(), the number of "Added: key" lines of those with one
ReportedAdded(stdout) ==
    IF \E i \in 1..Len(stdout) : stdout[i].line = "Added" /\ "n" \in DOMAIN stdout[i]
    THEN stdout[CHOOSE i \in 1..Len(stdout) :
                    stdout[i].line = "Added" /\ "n" \in DOMAIN stdout[i]].n
    ELSE Cardinality({i \in 1..Len(stdout) : stdout[i].line = "Added"})

ReportedTotal(stdout) == stdout[Len(stdout)].n

\* C18: after an extend run that completed, the number of entries it reports
\* as added is the number of records the run inserted, and the total it
\* reports is the number of keys of the written catalog.
C18_SummaryAccurate ==
    [][(last'.script = "extend" /\ last'.status = "ok") =>
          /\ ReportedAdded(last'.stdout) = Len(doc'.strings) - Len(doc.strings)
          /\ ReportedTotal(last'.stdout) = Cardinality(Keys(doc'.strings))]_vars

\* C19: while only extend runs have written the file, each one completely,
\* the keys of the catalog are the keys it had before the first run together
\* with the keys of every candidate of every run, and every record it had
\* before the first run is unchanged.
C19_SerializedRunsAccumulate ==
    (exists /\ whole /\ journal.pure) =>
        /\ Keys(doc.strings) = Keys(journal.initial.strings) \cup journal.keys
        /\ \A k \in Keys(journal.initial.strings) :
              /\ HasKey(doc.strings, k)
              /\ Lookup(doc.strings, k) = Lookup(journal.initial.strings, k)

\* at least two runs: the last one had the one candidate "ok" and skipped it;
\* the catalog began with custom and back, whose record of "Back!" is still
\* there after a candidate with the key back
C19_Witness ==
    /\ exists /\ whole /\ journal.pure
    /\ Keys(journal.initial.strings) = {K_custom, K_back}
    /\ journal.keys = {K_back, K_ok}
    /\ last.script = "extend" /\ last.status = "ok"
    /\ Len(last.stdout) = 2
    /\ last.stdout[1] = [line |-> "Skipped (exists)", key |-> K_ok]
    /\ EnOf(Lookup(doc.strings, K_back)) = T_BackBang
    /\ EnOf(Lookup(doc.strings, K_ok)) = T_OK

KeySeq(strings) == [i \in 1..Len(strings) |-> strings[i].key]

\* the keys a batch brings to a catalog: the keys of the candidates whose key
\* neither the catalog nor an earlier candidate of the batch has, in the
\* order of the batch
NewKeys(strings, new_translations) ==
    LET firsts == {i \in 1..Len(new_translations) :
                      /\ ~HasKey(strings, new_translations[i].key)
                      /\ \A j \in 1..(i - 1) :
                            new_translations[j].key # new_translations[i].key}
    IN  [n \in 1..Cardinality(firsts) |->
            new_translations[CHOOSE i \in firsts :
                                Cardinality({j \in firsts : j <= i}) = n].key]

\* the keys of the "Added: key" lines of a script with a main(), in order
AddedKeys(stdout) ==
    LET at == {i \in 1..Len(stdout) : stdout[i].line = "Added" /\ "key" \in DOMAIN stdout[i]}
    IN  [n \in 1..Cardinality(at) |->
            stdout[CHOOSE i \in at : Cardinality({j \in at : j <= i}) = n].key]

\* C20: for the catalog on disk and every batch, the merge keeps the keys of
\* the catalog first, in their order, followed by the keys the batch brings
\* in the order of their first candidates; and an extend run that completed
\* has written the keys it loaded in their order, followed by the inserted
\* keys (for a script with a main(): in the order of its "Added" lines).
C20_KeyOrderKept ==
    /\ [](exists /\ whole =>
            \A b \in Batches :
                KeySeq(ExtendMerge(doc.strings, b))
                   = KeySeq(doc.strings) \o NewKeys(doc.strings, b))
    /\ [][(last'.script = "extend" /\ last'.status = "ok") =>
            /\ Len(doc'.strings) >= Len(doc.strings)
            /\ SubSeq(KeySeq(doc'.strings), 1, Len(doc.strings)) = KeySeq(doc.strings)
            /\ Cardinality(Keys(doc'.strings)) = Len(doc'.strings)
            /\ (\E i \in 1..Len(last'.stdout) : "key" \in DOMAIN last'.stdout[i]) =>
                  SubSeq(KeySeq(doc'.strings), Len(doc.strings) + 1, Len(doc'.strings))
                     = AddedKeys(last'.stdout)]_vars

\* a run with the batch ok, back on a catalog with start: ok and back were
\* inserted in that order behind start
C20_Witness ==
    /\ last.script = "extend" /\ last.status = "ok"
    /\ Len(last.stdout) = 3
    /\ last.stdout[1] = [line |-> "Added", key |-> K_ok]
    /\ last.stdout[2] = [line |-> "Added", key |-> K_back]
    /\ KeySeq(journal.initial.strings) = <<K_start>>
    /\ KeySeq(doc.strings) = <<K_start, K_ok, K_back>>

(***************************************************************************)
(* The shape of the generated keys.                                        *)
(***************************************************************************)

\* a key without a leading, a trailing or a doubled "_"
NoStrayUnderscore(key) ==
    /\ key # <<>> => key[1] # "_" /\ key[Len(key)] # "_"
    /\ \A i \in 1..Len(key) - 1 : ~(key[i] = "_" /\ key[i + 1] = "_")

\* C21: the key either generate_key variant returns has no leading "_", no
\* trailing "_" and no two adjacent "_".
C21_NoStrayUnderscores ==
    /\ key_build # None => NoStrayUnderscore(key_build)
    /\ key_ct # None => NoStrayUnderscore(key_ct)

NotEmptyText(w) == w # <<>>

\* the words of a text: its whitespace-delimited pieces, each one normalised
\* as the variant normalises (pieces with nothing left are no words)
NormWord_build(w) == Lower(SelectSeq(w, LAMBDA c : c \in AsciiAlnum))
NormWord_ct(w) == SelectSeq(Lower(w), KeepAlnumOrUnderscore)

NormWords_build(text) ==
    LET ws == SplitWs(text)
    IN  SelectSeq([i \in 1..Len(ws) |-> NormWord_build(ws[i])], NotEmptyText)

NormWords_ct(text) ==
    LET ws == SplitWs(text)
    IN  SelectSeq([i \in 1..Len(ws) |-> NormWord_ct(ws[i])], NotEmptyText)

\* C22: when the normalised key (all normalised words joined by "_") is longer
\* than the ceiling, the key returned is the first N normalised words joined
\* by single "_": N = 5 for the ceiling 50, N = 3 for the ceiling 80.
C22_WordBoundaryTruncation ==
    /\ (key_build # None /\ Len(Join(NormWords_build(arg))) > KeyCeiling50) =>
            key_build = Join(Take(NormWords_build(arg), KeyWords5))
    /\ (key_ct # None /\ Len(Join(NormWords_ct(arg))) > KeyCeiling80) =>
            key_ct = Join(Take(NormWords_ct(arg), KeyWords3))

\* C23: the key returned is never longer than the ceiling of its variant.
C23_LengthLimit ==
    /\ key_build # None => Len(key_build) <= KeyCeiling50
    /\ key_ct # None => Len(key_ct) <= KeyCeiling80

(***************************************************************************)
(* The source scanners: Dayflow/Dayflow/extract_strings.py (main) and      *)
(* Dayflow/extract_strings.py (scan_directory).  A Swift file is its       *)
(* readability and the set of texts the patterns match in it.              *)
(***************************************************************************)

AllIn(text, S) == text # <<>> /\ \A i \in 1..Len(text) : text[i] \in S
StartsWith(text, prefix) ==
    Len(text) >= Len(prefix) /\ SubSeq(text, 1, Len(prefix)) = prefix

HTTP == <<"h", "t", "t", "p", ":", "/", "/">>
HTTPS == <<"h", "t", "t", "p", "s", ":", "/", "/">>
Instrument == <<"I", "n", "s", "t", "r", "u", "m", "e", "n", "t">>
Nunito == <<"N", "u", "n", "i", "t", "o">>

\* \d of a str pattern: the Unicode decimal digits
UnicodeDigit == AsciiDigit \cup {"U+0663"}

\* EXCLUDE_PATTERNS, tried in order with re.match
should_exclude(text) ==
    \/ AllIn(text, AsciiLower \cup {"_"})
    \/ AllIn(text, UnicodeDigit)
    \/ StartsWith(text, HTTP)
    \/ StartsWith(text, HTTPS)
    \/ AllIn(text, AsciiUpper \cup {"_"})
    \/ (StartsWith(text, <<"S", "F">>) /\ Len(text) >= 3 /\ IsSpace(text[3]))
    \/ StartsWith(text, Instrument)
    \/ StartsWith(text, Nunito)

\* re.match(r'^\\(.+)$', text): a backslash and at least one more character
OnlyInterpolation(text) == Len(text) >= 2 /\ text[1] = "\\"

\* '\\(' in text
HasInterpolation(text) ==
    \E i \in 1..Len(text) - 1 : text[i] = "\\" /\ text[i + 1] = "("

\* extract_strings_from_file: the strings it returns and whether it printed
\* "Error reading"; the except clause swallows the failure of open or read
extract_strings_from_file(file) ==
    IF ~file.readable THEN [strings |-> {}, error |-> TRUE]
    ELSE [strings |->
             {text \in {Strip(match) : match \in file.matches} :
                 text # <<>> /\ ~should_exclude(text) /\ ~OnlyInterpolation(text)},
          error |-> FALSE]

\* extract_text_strings and extract_label_strings of a file that opens
extract_text_and_label_strings(file) ==
    {text \in file.matches : ~HasInterpolation(text)}

MaxFiles == 2

T_Interpolated == <<"H", "i", " ", "\\", "(", "n", ")">>
Matches == {T_Back, T_PausedFor, K_ok, T_Interpolated}
Unreadable == [readable |-> FALSE, matches |-> {}]
SwiftFiles == {Unreadable} \cup {[readable |-> TRUE, matches |-> m] : m \in SUBSET Matches}
Directories == SeqsUpTo(SwiftFiles, MaxFiles)

\* one turn of "for swift_file in ....rglob('*.swift')" of main
MainScanFile ==
    /\ scan.scanner = "main"
    /\ scan.status = "scanning"
    /\ scan.done < Len(scan.files)
    /\ LET found == extract_strings_from_file(scan.files[scan.done + 1])
       IN  scan' = [scan EXCEPT
                      !.done = @ + 1,
                      !.all_strings = @ \cup found.strings,
                      !.stdout = IF found.error
                                 THEN Append(@, [line |-> "Error reading", file |-> scan.done + 1])
                                 ELSE @]
    /\ UNCHANGED <<catalogVars, inputVars, keyVars, runVars, proc>>

\* one turn of the os.walk loop of scan_directory: open() is not guarded, an
\* exception ends the script before the output file is opened
ScanDirectoryFile ==
    /\ scan.scanner = "scan_directory"
    /\ scan.status = "scanning"
    /\ scan.done < Len(scan.files)
    /\ LET file == scan.files[scan.done + 1]
       IN  scan' = IF file.readable
                   THEN [scan EXCEPT
                           !.done = @ + 1,
                           !.all_strings = @ \cup extract_text_and_label_strings(file),
                           !.stdout = Append(@, [line |-> "Scanning", file |-> scan.done + 1])]
                   ELSE [scan EXCEPT
                           !.status = "error",
                           !.stdout = Append(@, [line |-> "Scanning", file |-> scan.done + 1])]
    /\ UNCHANGED <<catalogVars, inputVars, keyVars, runVars, proc>>

\* after the last file: sorted(all_strings) is written to extracted_strings.txt,
\* one string per line
WriteExtracted ==
    /\ scan.status = "scanning"
    /\ scan.done = Len(scan.files)
    /\ extracted' = SortedTexts(scan.all_strings)
    /\ scan' = [scan EXCEPT !.status = "done", !.written = TRUE]
    /\ UNCHANGED <<catalogVars, table, keyVars, runVars, proc>>

\* python build_xcstrings.py on the file a scan wrote
BuildFromScan ==
    /\ scan.written
    /\ last.script = "none"
    /\ RunBuildXcstrings

InitScan ==
    /\ exists = FALSE
    /\ doc = EmptyDoc
    /\ last = Report("none", "ok", <<>>)
    /\ extracted = <<>>
    /\ table = TableEntries
    /\ arg = <<>>
    /\ key_build = None
    /\ key_ct = None
    /\ whole = TRUE
    /\ journal = Journal(EmptyDoc)
    /\ \E scanner \in {"main", "scan_directory"}, files \in Directories :
          scan = [scanner |-> scanner, files |-> files, done |-> 0, all_strings |-> {},
                  status |-> "scanning", stdout |-> <<>>, written |-> FALSE]
    /\ proc = NoInvocations

NextScan == MainScanFile \/ ScanDirectoryFile \/ WriteExtracted \/ BuildFromScan

SpecScan == InitScan /\ [][NextScan]_vars

\* C25: extracted_strings.txt is written only by a scan that could read every
\* Swift file it found.
C25_ScanFailureFatal ==
    scan.written => \A i \in 1..Len(scan.files) : scan.files[i].readable

\* C24: right after build_xcstrings, each hand-keyed entry is in the catalog
\* under its own key with its en and zh-Hans values, and the extracted lines
\* equal to a hand-keyed en value add nothing: the catalog is the one built
\* from the other lines alone.
C24_HandKeyedProtected ==
    last.script = "build_xcstrings" =>
        /\ \A i \in 1..Len(existing) :
              /\ HasKey(doc.strings, existing[i].key)
              /\ Lookup(doc.strings, existing[i].key).localizations
                    = create_string_unit(existing[i].en, existing[i].zh)
        /\ doc.strings
              = build_xcstrings(SelectSeq(extracted, LAMBDA line : line \notin HandKeyedTexts)).strings

(***************************************************************************)
(* Two invocations of extend scripts on the same file.  A script loads the *)
(* file at its top and writes it at its end; nothing is held in between.   *)
(***************************************************************************)

\* variant: the merge loop works on what the file holds when the loop starts
LoadedStrings_fresh(invocation, on_disk) == on_disk

\* data["strings"] in the merge loop: what json.load returned at the top
LoadedStrings(invocation, on_disk) == invocation.data

RaceCatalogs ==
    { <<>>,
      << Item(K_start, "manual", create_string_entry(K_start, T_Start, Zh_Start).localizations) >>,
      << Item(K_custom, "manual", create_string_unit(T_Custom, None)),
         Item(K_back, "manual", create_string_unit(T_BackBang, None)) >> }

\* with open(..., "r") as f: data = json.load(f), of invocation p
InvocationLoad(p) ==
    /\ proc.inv[p].pc = "start"
    /\ Load(exists, whole, FALSE) = "ok"
    /\ proc' = [proc EXCEPT !.inv[p].pc = "loaded",
                            !.inv[p].data = doc.strings,
                            !.log = Append(@, [p |-> p, op |-> "load"])]
    /\ UNCHANGED <<catalogVars, inputVars, keyVars, runVars, scan>>

\* the merge loop and json.dump of invocation p
InvocationMergeWrite(p) ==
    /\ proc.inv[p].pc = "loaded"
    /\ LET invocation == proc.inv[p]
           merged == ExtendMerge(LoadedStrings(invocation, doc.strings),
                                 invocation.new_translations)
           dumped == Dump(merged, FALSE)
       IN  /\ exists' = TRUE
           /\ doc' = [doc EXCEPT !.strings = dumped.written]
           /\ last' = Report("extend", dumped.status,
                         << [line |-> "Added", n |-> Len(invocation.new_translations)],
                            [line |-> "Total strings", n |-> Len(merged)] >>)
    /\ proc' = [proc EXCEPT !.inv[p].pc = "done",
                            !.log = Append(@, [p |-> p, op |-> "write"])]
    /\ UNCHANGED <<inputVars, keyVars, runVars, scan>>

InitRace ==
    /\ exists = TRUE
    /\ doc \in {[EmptyDoc EXCEPT !.strings = c] : c \in RaceCatalogs}
    /\ whole = TRUE
    /\ journal = Journal(doc)
    /\ scan = NoScan
    /\ \E a \in Batches, b \in Batches :
          proc = [inv |-> [p \in {1, 2} |->
                             [pc |-> "start",
                              new_translations |-> IF p = 1 THEN a ELSE b,
                              data |-> <<>>]],
                  log |-> <<>>]
    /\ last = Report("none", "ok", <<>>)
    /\ extracted = <<>>
    /\ table = TableEntries
    /\ arg = <<>>
    /\ key_build = None
    /\ key_ct = None

NextRace == \E p \in {1, 2} : InvocationLoad(p) \/ InvocationMergeWrite(p)

SpecRace == InitRace /\ [][NextRace]_vars

BothDone == \A p \in {1, 2} : proc.inv[p].pc = "done"

\* both invocations loaded before either wrote
Overlapped == BothDone /\ proc.log[1].op = "load" /\ proc.log[2].op = "load"

\* one invocation ended before the other began
Serialized == BothDone /\ proc.log[2].op = "write"

LastWriter == proc.log[4].p
FirstWriter == 3 - LastWriter

\* C26: no lock is taken: when both invocations have loaded before either
\* wrote, the file ends as the last writer alone would have left it, so every
\* key only the other invocation added is gone.
C26_LostUpdate ==
    Overlapped =>
        LET mine == proc.inv[LastWriter].new_translations
            theirs == proc.inv[FirstWriter].new_translations
            before == journal.initial.strings
        IN  /\ doc.strings = ExtendMerge(before, mine)
            /\ Keys(doc.strings) = Keys(before) \cup CandidateKeys(mine)
            /\ \A k \in CandidateKeys(theirs) \ (Keys(before) \cup CandidateKeys(mine)) :
                  ~HasKey(doc.strings, k)

\* the first writer added ok and back, the last writer added back only: the
\* file ends without ok
C26_Witness ==
    /\ Overlapped
    /\ CandidateKeys(proc.inv[FirstWriter].new_translations) = {K_ok, K_back}
    /\ CandidateKeys(proc.inv[LastWriter].new_translations) = {K_back}
    /\ journal.initial.strings = <<>>
    /\ Keys(doc.strings) = {K_back}

\* the key-to-record mapping of a catalog
Mapping(strings) == [k \in Keys(strings) |-> Lookup(strings, k)]

\* the keys two batches define with different content
ConflictKeys(A, B) ==
    {A[i].key : i \in {i \in 1..Len(A) : \E j \in 1..Len(B) :
                                            A[i].key = B[j].key /\ A[i] # B[j]}}

\* the record a batch defines for a key: from its first candidate with the key
RecordOf(A, k) ==
    LET cand == A[MinOf({i \in 1..Len(A) : A[i].key = k})]
    IN  create_string_entry(k, cand.en, cand.zh)

\* C29, as stated: after two extend runs one after the other, the mapping is
\* the one the other order gives, provided the two batches define no key with
\* different content; a key they define with different content has the
\* record of the batch that was merged first.
C29_OrderIndependent ==
    Serialized =>
        LET A == proc.inv[FirstWriter].new_translations
            B == proc.inv[LastWriter].new_translations
            before == journal.initial.strings
        IN  /\ ConflictKeys(A, B) = {} =>
                  Mapping(doc.strings) = Mapping(ExtendMerge(ExtendMerge(before, B), A))
            /\ \A k \in ConflictKeys(A, B) : Lookup(doc.strings, k) = RecordOf(A, k)

\* C29 amended: as stated, except that a key the two batches define with
\* different content has the record of the batch merged first only if the
\* catalog did not hold the key before; if it did, the record is still the
\* catalog's own.
C29_OrderIndependentAmended ==
    Serialized =>
        LET A == proc.inv[FirstWriter].new_translations
            B == proc.inv[LastWriter].new_translations
            before == journal.initial.strings
        IN  /\ ConflictKeys(A, B) = {} =>
                  Mapping(doc.strings) = Mapping(ExtendMerge(ExtendMerge(before, B), A))
            /\ \A k \in ConflictKeys(A, B) :
                  Lookup(doc.strings, k) = IF HasKey(before, k) THEN Lookup(before, k)
                                           ELSE RecordOf(A, k)

\* the first run added back with one translation, the second run came with
\* another one for back and with ok: back keeps the first, ok is added
C29_Witness ==
    /\ Serialized
    /\ journal.initial.strings # <<>>
    /\ ~HasKey(journal.initial.strings, K_back)
    /\ proc.inv[FirstWriter].new_translations = << [key |-> K_back, en |-> T_Back, zh |-> Zh_Alt] >>
    /\ K_back \in ConflictKeys(proc.inv[FirstWriter].new_translations,
                               proc.inv[LastWriter].new_translations)
    /\ ZhOf(Lookup(doc.strings, K_back)) = Zh_Alt
    /\ HasKey(doc.strings, K_ok)

\* the zh-Hans unit of a record is translated
ZhTranslated(entry) ==
    /\ "zh-Hans" \in DOMAIN entry.localizations
    /\ entry.localizations["zh-Hans"].stringUnit.state = "translated"

\* C27: whichever script runs on the file, every key the file held is still
\* in it afterwards, and a zh-Hans unit that was translated is the same unit
\* afterwards.
C27_CatalogOnlyGrows ==
    [][exists =>
          \A k \in Keys(doc.strings) :
              /\ HasKey(doc'.strings, k)
              /\ ZhTranslated(Lookup(doc.strings, k)) =>
                    Lookup(doc'.strings, k).localizations["zh-Hans"]
                        = Lookup(doc.strings, k).localizations["zh-Hans"]]_vars

(***************************************************************************)
(* The runs of add_translations.                                           *)
(***************************************************************************)

\* the run wrote the whole file
Completed == {"ok", "ZeroDivisionError"}

HasZh(entry) == "zh-Hans" \in DOMAIN entry.localizations

\* the zh-Hans unit the claim lets a run change
Translatable(entry) ==
    /\ HasZh(entry)
    /\ entry.localizations["zh-Hans"].stringUnit.state = "needs_translation"
    /\ "en" \in DOMAIN entry.localizations
    /\ EnOf(entry) \in DOMAIN COMPLETE_TRANSLATIONS

\* C28: a run of add_translations that writes the file keeps the keys and
\* their order, and of every record the extraction state, the set of units,
\* the en unit, and the zh-Hans unit unless that unit needs translation and
\* the table has the en value, in which case the unit becomes translated with
\* the table's value; a record without a zh-Hans unit is unchanged; a second
\* run changes nothing.
C28_AddTranslationsFrame ==
    [][(last'.script = "add_translations" /\ last'.status \in Completed) =>
          /\ KeySeq(doc'.strings) = KeySeq(doc.strings)
          /\ \A i \in 1..Len(doc.strings) :
                LET old == doc.strings[i].entry
                    new == doc'.strings[i].entry
                IN  /\ new.extractionState = old.extractionState
                    /\ DOMAIN new.localizations = DOMAIN old.localizations
                    /\ \A l \in DOMAIN old.localizations \ {"zh-Hans"} :
                          new.localizations[l] = old.localizations[l]
                    /\ ~HasZh(old) => new = old
                    /\ HasZh(old) =>
                          new.localizations["zh-Hans"] =
                             IF Translatable(old)
                             THEN StringUnit("translated", COMPLETE_TRANSLATIONS[EnOf(old)])
                             ELSE old.localizations["zh-Hans"]
          /\ add_translations(doc'.strings) = doc'.strings
          /\ (last.script = "add_translations" /\ last.status \in Completed) => doc' = doc]_vars

\* a run has translated the unit of custom_1 that needed translation, has
\* left the translation of custom that differs from the table's, and has left
\* the record of ok, which has no zh-Hans unit
C28_Witness ==
    /\ last.script = "add_translations" /\ last.status = "ok"
    /\ last.stdout[1] = [line |-> "Added", n |-> 1]
    /\ {K_custom, K_custom_1, K_ok} \subseteq Keys(journal.initial.strings)
    /\ KeySeq(doc.strings) = KeySeq(journal.initial.strings)
    /\ Lookup(journal.initial.strings, K_custom_1).localizations["zh-Hans"]
          = StringUnit("needs_translation", T_Custom)
    /\ Lookup(doc.strings, K_custom_1).localizations["zh-Hans"]
          = StringUnit("translated", Zh_Custom)
    /\ Lookup(doc.strings, K_custom).localizations["zh-Hans"]
          = StringUnit("translated", Zh_Alt)
    /\ ~HasZh(Lookup(doc.strings, K_ok))

\* every record has an en unit and a zh-Hans unit
WellFormed(strings) ==
    \A i \in 1..Len(strings) :
        {"en", "zh-Hans"} \subseteq DOMAIN strings[i].entry.localizations

\* C30: a run of add_translations on a catalog whose records all have en and
\* zh-Hans units, a catalog without strings included, writes the updated
\* catalog and ends without an error, unless the file cannot be opened or the
\* disk is full.
C30_AddTranslationsCompletes ==
    [][(/\ exists /\ whole /\ WellFormed(doc.strings)
        /\ last'.script = "add_translations"
        /\ last'.status \notin {"PermissionError", "OSError"}) =>
          /\ last'.status = "ok"
          /\ exists' /\ whole'
          /\ doc'.strings = add_translations(doc.strings)]_vars

====
